---------------------------- MODULE Spec2Model ----------------------------
(***************************************************************************)
(* A model of src/app.py, the Vertex AI Search proxy: the module-level     *)
(* configuration, the API-key dependency, the search handler with its      *)
(* per-result normalisation loop, and the storage metadata lookup.         *)
(*                                                                         *)
(* Python values are tagged records, so that a value of any shape can sit  *)
(* in any field of a result entry:                                         *)
(*   None, Str(<<symbols>>), Num(n), List(<<values>>), Map(function)       *)
(* A string is its sequence of symbols (the characters of a URI, or one    *)
(* opaque token for a piece of text).  Raise is the outcome of a call that *)
(* raises an exception.                                                    *)
(***************************************************************************)
EXTENDS Integers, Sequences, FiniteSets, TLC

VARIABLES
    api_keys,                   \* app.py:12  the allow-list
    enable_extractive_answers,  \* app.py:20-24
    enable_extractive_segments, \* app.py:26-30
    serving_config,             \* app.py:44-49
    content_search_spec,        \* app.py:55-80
    corpus,        \* the data store: the entries, the most hits of a page
                   \* and the summaries the service can return
    pending,       \* the requests clients may still issue: [id, query]
    pc,            \* position of each request in get_api_key / search
    header,        \* the X-API-Key header of each request (None: missing)
    query,         \* Request.query
    sent,          \* the SearchRequest handed to search_client.search
    pager,         \* what search_client.search returned
    documents,     \* the local list `documents` of search
    response,      \* the Response returned
    status,        \* HTTP status of the reply (0: not replied yet)
    searchCalls,   \* number of calls of search_client.search per request
    lookups,       \* storage lookups (bucket, name) made per request
    arg,           \* argument of a function applied on its own
    ret            \* its outcome

vars == <<api_keys, enable_extractive_answers, enable_extractive_segments,
          serving_config, content_search_spec, corpus, pending, pc, header,
          query, sent, pager, documents, response, status, searchCalls,
          lookups, arg, ret>>

config == <<api_keys, enable_extractive_answers, enable_extractive_segments,
            serving_config, content_search_spec>>

(* Bounds of the model. *)
MaxResults == 2
MaxRequests == 2
MaxConcResults == 1
MaxSub == 2

----------------------------------------------------------------------------
(* Python values. *)

None == [t |-> "null"]
Raise == [t |-> "raise"]
Str(s) == [t |-> "str", s |-> s]
Num(n) == [t |-> "num", n |-> n]
List(xs) == [t |-> "list", xs |-> xs]
Map(m) == [t |-> "map", m |-> m]

EmptyMap == Map(<<>>)

(* The order in which the keys of a mapping are iterated. *)
KeyOrder == <<"title", "link", "snippets", "extractive_answers",
              "extractive_segments", "snippet", "content", "pageNumber">>

(* v[k] for a string key k: KeyError on a mapping without k, TypeError on *)
(* anything that is not a mapping.                                         *)
GetItem(v, k) ==
    IF v.t = "map" /\ k \in DOMAIN v.m THEN v.m[k] ELSE Raise

(* `for x in v`: List of the elements of a list, of the characters of a   *)
(* string, of the keys of a mapping; TypeError on None and numbers.        *)
Iterate(v) ==
    CASE v.t = "list" -> v
      [] v.t = "str" -> List([i \in 1..Len(v.s) |-> Str(<<v.s[i]>>)])
      [] v.t = "map" ->
            LET ks == SelectSeq(KeyOrder, LAMBDA k : k \in DOMAIN v.m)
            IN  List([i \in 1..Len(ks) |-> Str(<<ks[i]>>)])
      [] OTHER -> Raise

(* pydantic validation of a field annotated `str | None`. *)
IsOptStr(v) == v.t \in {"str", "null"}

(* pydantic validation of a field annotated `int | None`. *)
IsOptInt(v) == v.t \in {"num", "null"}

----------------------------------------------------------------------------
(* Module-level configuration, app.py:12-80. *)

(* str.lower() on the letters an environment toggle can hold. *)
Lower(s) ==
    [i \in 1..Len(s) |->
        CASE s[i] = "T" -> "t" [] s[i] = "R" -> "r" [] s[i] = "U" -> "u"
          [] s[i] = "E" -> "e" [] OTHER -> s[i]]

(* The values os.environ can hold for a toggle; None: the variable is unset. *)
EnvToggles == {None, Str(<<"t", "r", "u", "e">>), Str(<<"T", "R", "U", "E">>),
               Str(<<"n", "o">>)}

(* app.py:20-30: the lowered value equals true; False when unset. *)
ReadToggle(env) ==
    IF env = None THEN FALSE ELSE Lower(env.s) = <<"t", "r", "u", "e">>

(* int(b) of a bool. *)
BoolToInt(b) == IF b THEN 1 ELSE 0

SummaryResultCount == 5
ExtractiveCountFactor == 5
NumPreviousSegments == 0
NumNextSegments == 0
PageSize == 10

(* The configuration with the segment count read from the answers toggle. *)
ContentSearchSpecOneToggle(enable_answers, enable_segments) ==
    [snippet_spec |-> [return_snippet |-> TRUE],
     summary_spec |->
        [summary_result_count |-> SummaryResultCount,
         include_citations |-> FALSE,
         ignore_adversarial_query |-> TRUE,
         ignore_non_summary_seeking_query |-> TRUE,
         language_code |-> "es",
         model_spec |-> [version |-> "preview"]],
     extractive_content_spec |->
        [max_extractive_answer_count |->
            ExtractiveCountFactor * BoolToInt(enable_answers),
         max_extractive_segment_count |->
            ExtractiveCountFactor * BoolToInt(enable_answers),
         return_extractive_segment_score |-> TRUE,
         num_previous_segments |-> NumPreviousSegments,
         num_next_segments |-> NumNextSegments]]

(* app.py:55-80 *)
ContentSearchSpec(enable_answers, enable_segments) ==
    [snippet_spec |-> [return_snippet |-> TRUE],
     summary_spec |->
        [summary_result_count |-> SummaryResultCount,
         include_citations |-> FALSE,
         ignore_adversarial_query |-> TRUE,
         ignore_non_summary_seeking_query |-> TRUE,
         language_code |-> "es",
         model_spec |-> [version |-> "preview"]],
     extractive_content_spec |->
        [max_extractive_answer_count |->
            ExtractiveCountFactor * BoolToInt(enable_answers),
         max_extractive_segment_count |->
            ExtractiveCountFactor * BoolToInt(enable_segments),
         return_extractive_segment_score |-> TRUE,
         num_previous_segments |-> NumPreviousSegments,
         num_next_segments |-> NumNextSegments]]

(* app.py:44-49 *)
ServingConfigPath ==
    [project |-> "project", location |-> "location",
     data_store |-> "data_store", serving_config |-> "default_config"]

(* The key the environment sets (API_KEY), and other header values. *)
ApiKey == Str(<<"key">>)
WrongKey == Str(<<"other">>)
Headers == {None, ApiKey, WrongKey}
Queries == {Str(<<"q1">>), Str(<<"q2">>)}

----------------------------------------------------------------------------
(* parse_gcs_uri, app.py:86-103:                                           *)
(* the regular expression matches the prefix gs://, then a bucket of one   *)
(* or more symbols other than /, then one /, then the rest as the name.    *)
(* TypeError when uri is no string, ValueError when it does not match.     *)

GsPrefix == <<"g", "s", ":", "/", "/">>

FirstSlashFrom(s, i) ==
    LET at == {j \in i..Len(s) : s[j] = "/"}
    IN  IF at = {} THEN 0 ELSE CHOOSE j \in at : \A k \in at : j <= k

parse_gcs_uri(uri) ==
    IF uri.t # "str" THEN Raise
    ELSE LET s == uri.s
             from == Len(GsPrefix) + 1
             slash == FirstSlashFrom(s, from)
         IN  IF /\ Len(s) >= Len(GsPrefix)
                /\ SubSeq(s, 1, Len(GsPrefix)) = GsPrefix
                /\ slash > from
             THEN [t |-> "tuple",
                   bucket |-> SubSeq(s, from, slash - 1),
                   name |-> SubSeq(s, slash + 1, Len(s))]
             ELSE Raise

(* The object store behind storage_client (app.py:40, 202-203):           *)
(* bucket.get_blob(name) raises on a bucket the service account cannot     *)
(* read, returns None for an object that does not exist, and otherwise a   *)
(* blob whose metadata is a dict (here its items in order) or None.        *)
GetBlob(bucket_name, blob_name) ==
    CASE bucket_name = <<"x">> -> Raise
      [] bucket_name = <<"b">> /\ blob_name = <<"o">> ->
            [t |-> "blob",
             metadata |-> List(<<<<Str(<<"k1">>), Str(<<"v1">>)>>,
                                 <<Str(<<"k2">>), Str(<<"v2">>)>>>>)]
      [] bucket_name = <<"b">> /\ blob_name = <<"d", "/", "p">> ->
            [t |-> "blob",
             metadata |-> List(<<<<Str(<<"k3">>), Str(<<"v3">>)>>>>)]
      [] bucket_name = <<"b">> /\ blob_name = <<"n">> ->
            [t |-> "blob", metadata |-> None]
      [] OTHER -> None

(* get_metadata, app.py:175-206. *)
get_metadata(uri) ==
    LET parsed == parse_gcs_uri(uri)
    IN  IF parsed.t = "raise" THEN Raise
        ELSE LET blob == GetBlob(parsed.bucket, parsed.name)
             IN  IF blob.t # "blob" THEN Raise
                 ELSE IF blob.metadata.t # "list" THEN Raise
                 ELSE List([i \in 1..Len(blob.metadata.xs) |->
                              [t |-> "Metadata",
                               key |-> blob.metadata.xs[i][1],
                               value |-> blob.metadata.xs[i][2]]])

(* The storage request get_metadata(uri) sends: none when the URI does not *)
(* parse, else the one get_blob of app.py:203.                             *)
StorageRequests(uri) ==
    LET parsed == parse_gcs_uri(uri)
    IN  IF parsed.t = "raise" THEN <<>>
        ELSE <<<<parsed.bucket, parsed.name>>>>

----------------------------------------------------------------------------
(* Result normalisation.  A result is modelled by its                      *)
(* result.document.derived_struct_data, a mapping.                         *)

(* try: v  except: None *)
OrNone(v) == IF v.t = "raise" THEN None ELSE v

(* The model classes, app.py:132-153: construction validates the fields   *)
(* and raises ValidationError on a value of the wrong type.                *)
ExtractiveItem(class, content, page_number) ==
    IF IsOptStr(content) /\ IsOptInt(page_number)
    THEN [t |-> class, content |-> content, page_number |-> page_number]
    ELSE Raise

IsOptStrList(v) ==
    \/ v.t = "null"
    \/ v.t = "list" /\ \A i \in 1..Len(v.xs) : v.xs[i].t = "str"

IsOptListOf(v, class) ==
    \/ v.t = "null"
    \/ v.t = "list" /\ \A i \in 1..Len(v.xs) : v.xs[i].t = class

(* Document(...), app.py:147-153 and 315-322. *)
Document(title, link, snippets, answers, segments, metadata) ==
    IF /\ IsOptStr(title)
       /\ IsOptStr(link)
       /\ IsOptStrList(snippets)
       /\ IsOptListOf(answers, "ExtractiveAnswer")
       /\ IsOptListOf(segments, "ExtractiveSegment")
       /\ IsOptListOf(metadata, "Metadata")
    THEN [t |-> "Document", title |-> title, link |-> link,
          snippets |-> snippets,
          extractive_answers |-> answers,
          extractive_segments |-> segments,
          metadata |-> metadata]
    ELSE Raise

(* extract_snippets leaving out the sub-entries it cannot read. *)
extract_snippets_skipping(result) ==
    LET coll == GetItem(result, "snippets")
        it == IF coll.t = "raise" THEN Raise ELSE Iterate(coll)
    IN  IF it.t = "raise" THEN Raise
        ELSE LET got == [i \in 1..Len(it.xs) |-> GetItem(it.xs[i], "snippet")]
             IN  List(SelectSeq(got, LAMBDA v : v.t # "raise"))

(* extract_snippets, app.py:209-224. *)
extract_snippets(result) ==
    LET coll == GetItem(result, "snippets")
        it == IF coll.t = "raise" THEN Raise ELSE Iterate(coll)
    IN  IF it.t = "raise" THEN Raise
        ELSE LET got == [i \in 1..Len(it.xs) |-> GetItem(it.xs[i], "snippet")]
             IN  IF \E i \in 1..Len(got) : got[i].t = "raise"
                 THEN Raise
                 ELSE List(got)

(* The iteration with one try block around both reads. *)
ExtractOneJoint(extraction, field) ==
    LET content == GetItem(extraction, "content")
        page_number == GetItem(extraction, "pageNumber")
        failed == content.t = "raise" \/ page_number.t = "raise"
    IN  ExtractiveItem(IF field = "extractive_answers"
                       THEN "ExtractiveAnswer" ELSE "ExtractiveSegment",
                       IF failed THEN None ELSE content,
                       IF failed THEN None ELSE page_number)

(* One iteration of the loop of extract_answers_segments, app.py:242-254. *)
ExtractOne(extraction, field) ==
    LET content == OrNone(GetItem(extraction, "content"))
        page_number == OrNone(GetItem(extraction, "pageNumber"))
    IN  ExtractiveItem(IF field = "extractive_answers"
                       THEN "ExtractiveAnswer" ELSE "ExtractiveSegment",
                       content, page_number)

(* extract_answers_segments, app.py:227-256. *)
extract_answers_segments(result, field) ==
    LET coll == GetItem(result, field)
        it == IF coll.t = "raise" THEN Raise ELSE Iterate(coll)
    IN  IF it.t = "raise" THEN Raise
        ELSE LET items == [i \in 1..Len(it.xs) |-> ExtractOne(it.xs[i], field)]
             IN  IF \E i \in 1..Len(items) : items[i].t = "raise"
                 THEN Raise
                 ELSE List(items)

(* The title and the metadata taken without their try blocks. *)
TitleOfUncaught(result) == GetItem(result, "title")
MetadataOfUncaught(link) == get_metadata(link)

(* The six try blocks of the loop of search, app.py:288-313. *)
TitleOf(result) == OrNone(GetItem(result, "title"))
LinkOf(result) == OrNone(GetItem(result, "link"))
SnippetsOf(result) == OrNone(extract_snippets(result))
AnswersOf(result) ==
    OrNone(extract_answers_segments(result, "extractive_answers"))
SegmentsOf(result) ==
    OrNone(extract_answers_segments(result, "extractive_segments"))
MetadataOf(link) == OrNone(get_metadata(link))

(* The body of the loop of search, app.py:288-322: the Document of one    *)
(* result, or Raise when Document(...) raises.                             *)
BuildDocument(result) ==
    Document(TitleOf(result), LinkOf(result), SnippetsOf(result),
             AnswersOf(result), SegmentsOf(result),
             MetadataOf(LinkOf(result)))

----------------------------------------------------------------------------
(* The result entries the models draw from. *)

Missing == [t |-> "missing"]

FieldKeys == {"title", "link", "snippets", "extractive_answers",
              "extractive_segments"}

(* The derived_struct_data holding f[k] under each key k that f does not  *)
(* mark Missing.                                                           *)
MkEntry(f) ==
    Map([k \in {x \in FieldKeys : f[x] # Missing} |-> f[k]])

SeqsUpTo(S, n) == UNION {[1..k -> S] : k \in 0..n}

Uri(s) == Str(GsPrefix \o s)

LinkFound == Uri(<<"b", "/", "o">>)             \* object with metadata
LinkPath == Uri(<<"b", "/", "d", "/", "p">>)    \* object under a path
LinkNoMetadata == Uri(<<"b", "/", "n">>)        \* object without metadata
LinkNotFound == Uri(<<"b", "/", "q">>)          \* no such object
LinkDenied == Uri(<<"x", "/", "o">>)            \* bucket that cannot be read
LinkHttp == Str(<<"h", ":", "/", "/", "b", "/", "o">>)
LinkNoName == Uri(<<"b">>)
LinkNoBucket == Uri(<<"/", "o">>)

Titles == {Str(<<"T">>), None, Map([a |-> Num(1)]), List(<<>>)}

Links == {LinkFound, LinkPath, LinkNoMetadata, LinkNotFound, LinkDenied,
          LinkHttp, LinkNoName, LinkNoBucket, None, Num(7)}

SnippetSubs == {Map([snippet |-> Str(<<"a">>)]), Map([snippet |-> Str(<<"b">>)]),
                EmptyMap, Map([snippet |-> Num(7)])}

SpanSubs == {Map([content |-> Str(<<"x">>), pageNumber |-> Num(2)]),
             Map([content |-> Str(<<"x">>)]),
             Map([pageNumber |-> Num(2)]),
             EmptyMap,
             Str(<<"s">>),
             Map([content |-> Num(7)]),
             Map([content |-> Str(<<"x">>), pageNumber |-> Str(<<"p">>)])}

(* Values under a collection key that are no list of sub-entries. *)
OddCollections == {None, Num(0), Str(<<>>), Str(<<"y", "z">>), EmptyMap}

SnippetColls ==
    {List(xs) : xs \in SeqsUpTo(SnippetSubs, MaxSub)} \cup OddCollections

SpanColls ==
    {List(xs) : xs \in SeqsUpTo(SpanSubs, MaxSub)} \cup OddCollections

GoodSnippets ==
    List(<<Map([snippet |-> Str(<<"a">>)]), Map([snippet |-> Str(<<"b">>)])>>)
GoodAnswers ==
    List(<<Map([content |-> Str(<<"x">>), pageNumber |-> Num(2)]),
           Map([content |-> Str(<<"x">>)])>>)
GoodSegments == List(<<Map([pageNumber |-> Num(2)])>>)

Full ==
    [title |-> Str(<<"T">>), link |-> LinkFound, snippets |-> GoodSnippets,
     extractive_answers |-> GoodAnswers, extractive_segments |-> GoodSegments]

Bare == [k \in FieldKeys |-> Missing]

(* Every combination of a few values per key, and every value of one key  *)
(* in an entry that is otherwise full or otherwise empty.                  *)
BasicChoices ==
    [title : {Missing, Str(<<"T">>), Map([a |-> Num(1)])},
     link : {Missing, LinkFound, LinkHttp},
     snippets : {Missing, GoodSnippets, List(<<EmptyMap>>)},
     extractive_answers : {Missing, GoodAnswers, Num(0)},
     extractive_segments : {Missing, GoodSegments,
                            List(<<Map([content |-> Num(7)])>>)}]

VariedFrom(base) ==
    {[base EXCEPT !.title = v] : v \in Titles}
    \cup {[base EXCEPT !.link = v] : v \in Links}
    \cup {[base EXCEPT !.snippets = v] : v \in SnippetColls}
    \cup {[base EXCEPT !.extractive_answers = v] : v \in SpanColls}
    \cup {[base EXCEPT !.extractive_segments = v] : v \in SpanColls}

VariedChoices == VariedFrom(Full) \cup VariedFrom(Bare)

NormEntries == {MkEntry(f) : f \in BasicChoices \cup VariedChoices}

(* The data store of the request-level model. *)
Entries ==
    {MkEntry(Full),
     MkEntry(Bare),
     MkEntry([Bare EXCEPT !.title = Str(<<"T">>), !.link = LinkHttp]),
     MkEntry([Full EXCEPT !.link = LinkNotFound, !.title = Missing]),
     MkEntry([Full EXCEPT !.link = LinkNoMetadata,
                          !.extractive_segments = Missing]),
     MkEntry([Bare EXCEPT !.link = LinkDenied, !.snippets = GoodSnippets]),
     MkEntry([Full EXCEPT !.title = Map([a |-> Num(1)])]),
     MkEntry([Bare EXCEPT !.link = LinkPath,
                          !.extractive_answers = GoodAnswers])}

(* The data store of the model of concurrent requests. *)
ConcEntries ==
    {MkEntry(Full),
     MkEntry([Bare EXCEPT !.title = Str(<<"T">>), !.link = LinkNotFound])}

----------------------------------------------------------------------------
(* The requests. *)

RIDs == 1..MaxRequests

(* pager.summary.summary_text: the empty string when the service made no  *)
(* summary.                                                                *)
SummaryTexts == {Str(<<>>), Str(<<"sum">>)}

(* The state once the module is loaded (app.py:12-83), serving the data   *)
(* store `store`, with the requests `clients` still to come, the toggles   *)
(* of the environment being any of `environ`.                              *)
Loaded(store, clients, environ) ==
    /\ api_keys = <<ApiKey>>
    /\ \E env \in environ : enable_extractive_answers = ReadToggle(env)
    /\ \E env \in environ : enable_extractive_segments = ReadToggle(env)
    /\ serving_config = ServingConfigPath
    /\ content_search_spec =
          ContentSearchSpec(enable_extractive_answers,
                            enable_extractive_segments)
    /\ corpus = store
    /\ pending = clients
    /\ pc = [r \in RIDs |-> "new"]
    /\ header = [r \in RIDs |-> None]
    /\ query = [r \in RIDs |-> None]
    /\ sent = [r \in RIDs |-> None]
    /\ pager = [r \in RIDs |-> None]
    /\ documents = [r \in RIDs |-> <<>>]
    /\ response = [r \in RIDs |-> None]
    /\ status = [r \in RIDs |-> 0]
    /\ searchCalls = [r \in RIDs |-> 0]
    /\ lookups = [r \in RIDs |-> <<>>]

Init ==
    /\ Loaded([entries |-> Entries, hits |-> MaxResults,
               summaries |-> SummaryTexts],
              [id : {1}, query : Queries], EnvToggles)
    /\ arg = None
    /\ ret = None

(* A client issues a POST / with or without the X-API-Key header. *)
Receive(r) ==
    /\ \E request \in pending :
          /\ request.id = r
          /\ query' = [query EXCEPT ![r] = request.query]
    /\ pending' = {request \in pending : request.id # r}
    /\ \E h \in Headers : header' = [header EXCEPT ![r] = h]
    /\ pc' = [pc EXCEPT ![r] = "auth"]
    /\ UNCHANGED <<config, corpus, sent, pager, documents, response, status,
                   searchCalls, lookups, arg, ret>>

(* `x in list` *)
InList(x, list) == \E i \in 1..Len(list) : list[i] = x

(* get_api_key letting a request without the header through. *)
get_api_key_lenient(api_key_header) ==
    IF api_key_header = None \/ InList(api_key_header, api_keys)
    THEN api_key_header ELSE Raise

(* get_api_key, app.py:106-125: the key, or Raise for the HTTPException. *)
get_api_key(api_key_header) ==
    IF InList(api_key_header, api_keys) THEN api_key_header ELSE Raise

HTTP_401_UNAUTHORIZED == 401
HTTP_500_INTERNAL_SERVER_ERROR == 500
HTTP_200_OK == 200

(* The Security(get_api_key) dependency of search, app.py:260. *)
Authenticate(r) ==
    /\ pc[r] = "auth"
    /\ IF get_api_key(header[r]).t = "raise"
       THEN /\ pc' = [pc EXCEPT ![r] = "rejected"]
            /\ status' = [status EXCEPT ![r] = HTTP_401_UNAUTHORIZED]
       ELSE /\ pc' = [pc EXCEPT ![r] = "search"]
            /\ UNCHANGED status
    /\ UNCHANGED <<config, corpus, pending, header, query, sent, pager,
                   documents, response, searchCalls, lookups, arg, ret>>

(* discoveryengine.SearchRequest(...), app.py:272-283. *)
SearchRequest(q) ==
    [serving_config |-> serving_config,
     query |-> q,
     page_size |-> PageSize,
     content_search_spec |-> content_search_spec,
     query_expansion_spec |-> [condition |-> "AUTO"],
     spell_correction_spec |-> [mode |-> "AUTO"]]

Min(a, b) == IF a <= b THEN a ELSE b

(* The pages search_client.search can return for a request: up to         *)
(* page_size entries of the data store, in the order the service ranks    *)
(* them, and a summary.                                                    *)
Pagers(request) ==
    [t : {"pager"},
     results : SeqsUpTo(corpus.entries, Min(request.page_size, corpus.hits)),
     summary : corpus.summaries]

(* app.py:272-286 when search_client.search returns. *)
SearchCall(r) ==
    /\ pc[r] = "search"
    /\ sent' = [sent EXCEPT ![r] = SearchRequest(query[r])]
    /\ searchCalls' = [searchCalls EXCEPT ![r] = @ + 1]
    /\ \E p \in Pagers(sent'[r]) : pager' = [pager EXCEPT ![r] = p]
    /\ documents' = [documents EXCEPT ![r] = <<>>]
    /\ pc' = [pc EXCEPT ![r] = "loop"]
    /\ UNCHANGED <<config, corpus, pending, header, query, response, status,
                   lookups, arg, ret>>

(* The failure of the search call caught and answered with no documents. *)
SearchCallFailsAbsorbed(r) ==
    /\ pc[r] = "search"
    /\ sent' = [sent EXCEPT ![r] = SearchRequest(query[r])]
    /\ searchCalls' = [searchCalls EXCEPT ![r] = @ + 1]
    /\ response' = [response EXCEPT
                      ![r] = [t |-> "Response", summary |-> None,
                              documents |-> List(<<>>)]]
    /\ pc' = [pc EXCEPT ![r] = "done"]
    /\ status' = [status EXCEPT ![r] = HTTP_200_OK]
    /\ UNCHANGED <<config, corpus, pending, header, query, pager, documents,
                   lookups, arg, ret>>

(* app.py:272-284 when search_client.search raises: nothing catches it.   *)
SearchCallFails(r) ==
    /\ pc[r] = "search"
    /\ sent' = [sent EXCEPT ![r] = SearchRequest(query[r])]
    /\ searchCalls' = [searchCalls EXCEPT ![r] = @ + 1]
    /\ pc' = [pc EXCEPT ![r] = "failed"]
    /\ status' = [status EXCEPT ![r] = HTTP_500_INTERNAL_SERVER_ERROR]
    /\ UNCHANGED <<config, corpus, pending, header, query, pager, documents,
                   response, lookups, arg, ret>>

(* The iteration putting the document at the front of the list. *)
ProcessResultFront(r) ==
    /\ pc[r] = "loop"
    /\ Len(documents[r]) < Len(pager[r].results)
    /\ LET result == pager[r].results[Len(documents[r]) + 1]
           document == BuildDocument(result)
       IN  /\ lookups' = [lookups EXCEPT
                            ![r] = @ \o StorageRequests(LinkOf(result))]
           /\ IF document.t = "raise"
              THEN /\ pc' = [pc EXCEPT ![r] = "failed"]
                   /\ status' = [status EXCEPT
                                   ![r] = HTTP_500_INTERNAL_SERVER_ERROR]
                   /\ UNCHANGED documents
              ELSE /\ documents' = [documents EXCEPT
                                      ![r] = <<document>> \o @]
                   /\ UNCHANGED <<pc, status>>
    /\ UNCHANGED <<config, corpus, pending, header, query, sent, pager,
                   response, searchCalls, arg, ret>>

(* The iteration with `documents` a list of the module, shared by the     *)
(* requests in their loop.                                                 *)
ProcessResultShared(r) ==
    /\ pc[r] = "loop"
    /\ Len(documents[r]) < Len(pager[r].results)
    /\ LET result == pager[r].results[Len(documents[r]) + 1]
           document == BuildDocument(result)
       IN  /\ lookups' = [lookups EXCEPT
                            ![r] = @ \o StorageRequests(LinkOf(result))]
           /\ IF document.t = "raise"
              THEN /\ pc' = [pc EXCEPT ![r] = "failed"]
                   /\ status' = [status EXCEPT
                                   ![r] = HTTP_500_INTERNAL_SERVER_ERROR]
                   /\ UNCHANGED documents
              ELSE /\ documents' =
                         [q \in RIDs |->
                            IF pc[q] = "loop"
                            THEN Append(documents[q], document)
                            ELSE documents[q]]
                   /\ UNCHANGED <<pc, status>>
    /\ UNCHANGED <<config, corpus, pending, header, query, sent, pager,
                   response, searchCalls, arg, ret>>

(* One iteration of `for result in pager.results`, app.py:287-324. *)
ProcessResult(r) ==
    /\ pc[r] = "loop"
    /\ Len(documents[r]) < Len(pager[r].results)
    /\ LET result == pager[r].results[Len(documents[r]) + 1]
           document == BuildDocument(result)
       IN  /\ lookups' = [lookups EXCEPT
                            ![r] = @ \o StorageRequests(LinkOf(result))]
           /\ IF document.t = "raise"
              THEN /\ pc' = [pc EXCEPT ![r] = "failed"]
                   /\ status' = [status EXCEPT
                                   ![r] = HTTP_500_INTERNAL_SERVER_ERROR]
                   /\ UNCHANGED documents
              ELSE /\ documents' = [documents EXCEPT
                                      ![r] = Append(@, document)]
                   /\ UNCHANGED <<pc, status>>
    /\ UNCHANGED <<config, corpus, pending, header, query, sent, pager,
                   response, searchCalls, arg, ret>>

(* After the loop, app.py:326-335. *)
Respond(r) ==
    /\ pc[r] = "loop"
    /\ Len(documents[r]) = Len(pager[r].results)
    /\ response' = [response EXCEPT
                      ![r] = [t |-> "Response",
                              summary |-> OrNone(pager[r].summary),
                              documents |-> List(documents[r])]]
    /\ status' = [status EXCEPT ![r] = HTTP_200_OK]
    /\ pc' = [pc EXCEPT ![r] = "done"]
    /\ UNCHANGED <<config, corpus, pending, header, query, sent, pager,
                   documents, searchCalls, lookups, arg, ret>>

Next ==
    \E r \in RIDs :
        \/ Receive(r)
        \/ Authenticate(r)
        \/ SearchCall(r)
        \/ SearchCallFails(r)
        \/ ProcessResult(r)
        \/ Respond(r)

Spec == Init /\ [][Next]_vars

(* The query of client r: r times the symbol q. *)
QueryOf(r) == Str([i \in 1..r |-> "q"])

(* Every client of RIDs with a query of its own, on a small data store. *)
InitConc ==
    /\ Loaded([entries |-> ConcEntries, hits |-> MaxConcResults,
               summaries |-> {Str(<<>>)}],
              {[id |-> r, query |-> QueryOf(r)] : r \in RIDs}, {None})
    /\ arg = None
    /\ ret = None

SpecConc == InitConc /\ [][Next]_vars

----------------------------------------------------------------------------
(* The functions of the normalisation applied on their own to one entry.  *)

InitNorm ==
    /\ Loaded([entries |-> {}, hits |-> 0, summaries |-> {}], {}, {None})
    /\ arg \in NormEntries
    /\ ret = None

Applied(f, out) ==
    /\ ret = None
    /\ ret' = [t |-> "applied", f |-> f, out |-> out]
    /\ UNCHANGED <<config, corpus, pending, pc, header, query, sent, pager,
                   documents, response, status, searchCalls, lookups, arg>>

ApplyBuildDocument == Applied("BuildDocument", BuildDocument(arg))
ApplySnippets == Applied("snippets", SnippetsOf(arg))
ApplyExtractAnswers ==
    Applied("extractive_answers",
            extract_answers_segments(arg, "extractive_answers"))
ApplyExtractSegments ==
    Applied("extractive_segments",
            extract_answers_segments(arg, "extractive_segments"))
ApplyMetadata == Applied("metadata", MetadataOf(LinkOf(arg)))

NextNorm ==
    \/ ApplyBuildDocument
    \/ ApplySnippets
    \/ ApplyExtractAnswers
    \/ ApplyExtractSegments
    \/ ApplyMetadata

SpecNorm == InitNorm /\ [][NextNorm]_vars

----------------------------------------------------------------------------
(* Properties of the requests, checked under Spec. *)

Results(r) == pager[r].results

(* C1, as the specification states it: every search configuration built   *)
(* has the defaults of the table of section 4.1 (summary_result_count 3,   *)
(* both extractive counts 3, page_size 3, and the other eight values).     *)
C1_TableDefaults ==
    \A r \in RIDs :
        sent[r] # None =>
            LET c == sent[r].content_search_spec
            IN  /\ c.summary_spec.summary_result_count = 3
                /\ c.summary_spec.include_citations = FALSE
                /\ c.summary_spec.ignore_adversarial_query = TRUE
                /\ c.summary_spec.ignore_non_summary_seeking_query = TRUE
                /\ c.snippet_spec.return_snippet = TRUE
                /\ c.extractive_content_spec.return_extractive_segment_score
                      = TRUE
                /\ c.extractive_content_spec.max_extractive_answer_count = 3
                /\ c.extractive_content_spec.max_extractive_segment_count = 3
                /\ c.extractive_content_spec.num_previous_segments = 0
                /\ c.extractive_content_spec.num_next_segments = 0
                /\ sent[r].page_size = 3

(* C1, amended: every search configuration built has summary_result_count *)
(* 5, page_size 10, max_extractive_answer_count 5 when the answers toggle  *)
(* of the environment is on and 0 when it is off or unset, the same for    *)
(* max_extractive_segment_count and the segments toggle, and the other     *)
(* eight values as in the table.                                           *)
C1_BuiltConfiguration ==
    \A r \in RIDs :
        sent[r] # None =>
            LET c == sent[r].content_search_spec
            IN  /\ c.summary_spec.summary_result_count = 5
                /\ c.summary_spec.include_citations = FALSE
                /\ c.summary_spec.ignore_adversarial_query = TRUE
                /\ c.summary_spec.ignore_non_summary_seeking_query = TRUE
                /\ c.snippet_spec.return_snippet = TRUE
                /\ c.extractive_content_spec.return_extractive_segment_score
                      = TRUE
                /\ c.extractive_content_spec.max_extractive_answer_count
                      = (IF enable_extractive_answers THEN 5 ELSE 0)
                /\ c.extractive_content_spec.max_extractive_segment_count
                      = (IF enable_extractive_segments THEN 5 ELSE 0)
                /\ c.extractive_content_spec.num_previous_segments = 0
                /\ c.extractive_content_spec.num_next_segments = 0
                /\ sent[r].page_size = 10

(* A request was sent to the search service with the answers toggle on    *)
(* and the segments toggle off.                                            *)
C1_Witness ==
    \E r \in RIDs :
        /\ sent[r] # None
        /\ enable_extractive_answers
        /\ ~enable_extractive_segments

(* C3: an authenticated request whose search call returned never ends in  *)
(* an error, whatever the result entries hold.                             *)
C3_AlwaysResponse ==
    \A r \in RIDs :
        pager[r] # None =>
            /\ pc[r] # "failed"
            /\ status[r] # HTTP_500_INTERNAL_SERVER_ERROR

(* C4: once the search call returned n entries, the documents built so    *)
(* far are those of the first entries, in their order, and the Response    *)
(* holds exactly n documents, the i-th built from entry i; for n = 0 its   *)
(* documents is the empty list, not None.                                  *)
C4_DocumentsFollowResults ==
    \A r \in RIDs :
        pager[r] # None =>
            /\ Len(documents[r]) <= Len(Results(r))
            /\ \A i \in 1..Len(documents[r]) :
                  documents[r][i] = BuildDocument(Results(r)[i])
            /\ pc[r] = "done" =>
                  /\ response[r].documents = List(documents[r])
                  /\ Len(response[r].documents.xs) = Len(Results(r))

(* A Response of two documents, the first from an entry with no field at  *)
(* all and the second from a full entry.                                   *)
C4_Witness ==
    \E r \in RIDs :
        /\ pc[r] = "done"
        /\ Results(r) = <<MkEntry(Bare), MkEntry(Full)>>
        /\ Len(response[r].documents.xs) = 2
        /\ response[r].documents.xs[1].title = None
        /\ response[r].documents.xs[2].title = Str(<<"T">>)

(* The links whose metadata lookup fails: no object, an object without    *)
(* metadata, a bucket that cannot be read, and the URIs that do not match. *)
FailingLinks == {LinkNotFound, LinkNoMetadata, LinkDenied, LinkHttp,
                 LinkNoName, LinkNoBucket}

MetadataFailsFor(result) ==
    \/ "link" \notin DOMAIN result.m
    \/ result.m.link.t # "str"
    \/ result.m.link \in FailingLinks

(* C5: a document whose metadata lookup fails has metadata None and keeps *)
(* the title, link, snippets, answers and segments extracted for it; the   *)
(* other documents have theirs and the metadata of their object; and a     *)
(* request is only ever aborted by a field that Document rejects, never by *)
(* a failed lookup.                                                        *)
C5_MetadataFailureIsLocal ==
    \A r \in RIDs :
        pager[r] # None =>
            /\ \A i \in 1..Len(documents[r]) :
                  LET result == Results(r)[i]
                      d == documents[r][i]
                  IN  /\ MetadataFailsFor(result) => d.metadata = None
                      /\ ~MetadataFailsFor(result) => d.metadata.t = "list"
                      /\ d.title = TitleOf(result)
                      /\ d.link = LinkOf(result)
                      /\ d.snippets = SnippetsOf(result)
                      /\ d.extractive_answers = AnswersOf(result)
                      /\ d.extractive_segments = SegmentsOf(result)
            /\ pc[r] = "failed" =>
                  LET result == Results(r)[Len(documents[r]) + 1]
                  IN  \/ ~IsOptStr(TitleOf(result))
                      \/ ~IsOptStr(LinkOf(result))
                      \/ ~IsOptStrList(SnippetsOf(result))

(* A Response whose first document comes from an entry whose object does  *)
(* not exist and whose second comes from one with metadata.                *)
C5_Witness ==
    \E r \in RIDs :
        /\ pc[r] = "done"
        /\ Len(Results(r)) = 2
        /\ "link" \in DOMAIN Results(r)[1].m
        /\ Results(r)[1].m.link = LinkNotFound
        /\ documents[r][1].metadata = None
        /\ documents[r][1].snippets = List(<<Str(<<"a">>), Str(<<"b">>)>>)
        /\ documents[r][2].metadata.t = "list"

C7_SearchFailurePropagates ==
    \A r \in RIDs :
        (searchCalls[r] > 0 /\ pager[r] = None) =>
            /\ pc[r] = "failed"
            /\ status[r] = 500
            /\ response[r] = None
            /\ documents[r] = <<>>
            /\ lookups[r] = <<>>

(* The search call of an authenticated request has raised. *)
C7_Witness ==
    \E r \in RIDs :
        /\ header[r] = ApiKey
        /\ searchCalls[r] = 1
        /\ pager[r] = None
        /\ pc[r] = "failed"

----------------------------------------------------------------------------
(* Concurrent requests, checked under SpecConc. *)

(* What a request gets from the page p when it runs alone: the Response   *)
(* of the documents of its entries in order, or Raise when one cannot be  *)
(* built.                                                                  *)
AloneDocuments(p) == [i \in 1..Len(p.results) |-> BuildDocument(p.results[i])]

AloneResponse(p) ==
    IF \E i \in 1..Len(p.results) : AloneDocuments(p)[i].t = "raise"
    THEN Raise
    ELSE [t |-> "Response", summary |-> p.summary,
          documents |-> List(AloneDocuments(p))]

IsolatedState ==
    \A r \in RIDs :
        /\ sent[r] # None => sent[r].query = query[r]
        /\ pc[r] = "done" => response[r] = AloneResponse(pager[r])
        /\ (pc[r] = "failed" /\ pager[r] # None) =>
              AloneResponse(pager[r]) = Raise
        /\ pager[r] # None =>
              \A i \in 1..Len(documents[r]) :
                  /\ i <= Len(Results(r))
                  /\ documents[r][i] = AloneDocuments(pager[r])[i]
        /\ \A j \in 1..Len(lookups[r]) :
              \E i \in 1..Len(Results(r)) :
                  <<lookups[r][j]>> = StorageRequests(LinkOf(Results(r)[i]))

(* C10: under every interleaving of the requests, no step changes         *)
(* api_keys, serving_config, content_search_spec or the toggles, each      *)
(* request sends its own query, and each Response is the one the request   *)
(* gets alone from the same page of results and the same object store.     *)
C10_RequestsAreIsolated ==
    /\ []IsolatedState
    /\ [][config' = config]_vars

(* Two requests have been answered, with different documents. *)
C10_Witness ==
    \E r1, r2 \in RIDs :
        /\ r1 # r2
        /\ pc[r1] = "done"
        /\ pc[r2] = "done"
        /\ Len(Results(r1)) = 1
        /\ Len(Results(r2)) = 1
        /\ response[r1].documents # response[r2].documents

----------------------------------------------------------------------------
(* The normalisation of one entry, checked under SpecNorm. *)

Has(value, key) == value.t = "map" /\ key \in DOMAIN value.m

IsSnippetEntry(sub) == Has(sub, "snippet") /\ sub.m.snippet.t = "str"

IsSpanEntry(sub) ==
    /\ sub.t = "map"
    /\ Has(sub, "content") => sub.m.content.t = "str"
    /\ Has(sub, "pageNumber") => sub.m.pageNumber.t = "num"

(* The value a present key holds has the shape the search service gives   *)
(* that key.                                                               *)
WellShapedField(key, value) ==
    CASE key \in {"title", "link"} -> value.t = "str"
      [] key = "snippets" ->
            /\ value.t = "list"
            /\ \A i \in 1..Len(value.xs) : IsSnippetEntry(value.xs[i])
      [] OTHER ->
            /\ value.t = "list"
            /\ \A i \in 1..Len(value.xs) : IsSpanEntry(value.xs[i])

WellShaped(entry) ==
    \A key \in DOMAIN entry.m : WellShapedField(key, entry.m[key])

SpanOf(class, sub) ==
    [t |-> class,
     content |-> IF Has(sub, "content") THEN sub.m.content ELSE None,
     page_number |-> IF Has(sub, "pageNumber") THEN sub.m.pageNumber ELSE None]

(* The value of the Document field for a well-shaped value of the key. *)
Mapped(key, value) ==
    CASE key \in {"title", "link"} -> value
      [] key = "snippets" ->
            List([i \in 1..Len(value.xs) |-> value.xs[i].m.snippet])
      [] key = "extractive_answers" ->
            List([i \in 1..Len(value.xs) |->
                    SpanOf("ExtractiveAnswer", value.xs[i])])
      [] key = "extractive_segments" ->
            List([i \in 1..Len(value.xs) |->
                    SpanOf("ExtractiveSegment", value.xs[i])])

AppliedAs(f) == ret.t = "applied" /\ ret.f = f

(* C2: for an entry from which any set S of the five keys is missing and  *)
(* whose present keys hold values of their shape, the loop body builds a   *)
(* Document (it does not raise) in which exactly the fields of S are None  *)
(* and every other field is the value mapped from the entry.               *)
C2_MissingKeysAreAbsent ==
    (AppliedAs("BuildDocument") /\ WellShaped(arg)) =>
        /\ ret.out.t = "Document"
        /\ \A key \in FieldKeys :
              IF key \in DOMAIN arg.m
              THEN /\ ret.out[key] = Mapped(key, arg.m[key])
                   /\ ret.out[key] # None
              ELSE ret.out[key] = None

(* The Document of an entry holding a title and snippets only. *)
C2_Witness ==
    /\ AppliedAs("BuildDocument")
    /\ WellShaped(arg)
    /\ DOMAIN arg.m = {"title", "snippets"}
    /\ ret.out.t = "Document"
    /\ ret.out.link = None
    /\ ret.out.snippets = List(<<Str(<<"a">>), Str(<<"b">>)>>)

(* The sub-entries a collection iterates to, when it can be iterated:    *)
(* the elements of a list, the characters of a string, the keys of a       *)
(* mapping (strings).                                                      *)
IsIterable(coll) == coll.t \in {"list", "str", "map"}

SubEntries(coll) ==
    CASE coll.t = "list" -> coll.xs
      [] coll.t = "str" -> [i \in 1..Len(coll.s) |-> Str(<<coll.s[i]>>)]
      [] coll.t = "map" ->
            [i \in 1..Cardinality(DOMAIN coll.m) |-> Str(<<"key">>)]

(* C8, as the specification states it: the snippets of an entry are the   *)
(* snippet values of the sub-entries in order, and they are absent only    *)
(* when the collection is missing or is no list of sub-entries, not        *)
(* because of a defect of one sub-entry.                                   *)
C8_AbsentOnlyWithoutCollection ==
    AppliedAs("snippets") =>
        /\ ret.out.t = "list" =>
              /\ Len(ret.out.xs) = Len(SubEntries(arg.m.snippets))
              /\ \A i \in 1..Len(ret.out.xs) :
                    ret.out.xs[i] = arg.m.snippets.xs[i].m.snippet
        /\ ret.out = None =>
              \/ "snippets" \notin DOMAIN arg.m
              \/ arg.m.snippets.t # "list"

(* C8, amended: the snippets search extracts for an entry are the snippet *)
(* values of the sub-entries of the collection in order; they are absent   *)
(* exactly when the collection is missing, cannot be iterated, or has at   *)
(* least one sub-entry that is no mapping with a snippet key: one such     *)
(* sub-entry makes the whole field absent.                                 *)
C8_SnippetsAllOrNothing ==
    AppliedAs("snippets") =>
        IF /\ "snippets" \in DOMAIN arg.m
           /\ IsIterable(arg.m.snippets)
           /\ \A i \in 1..Len(SubEntries(arg.m.snippets)) :
                 Has(SubEntries(arg.m.snippets)[i], "snippet")
        THEN /\ ret.out.t = "list"
             /\ Len(ret.out.xs) = Len(SubEntries(arg.m.snippets))
             /\ \A i \in 1..Len(ret.out.xs) :
                   ret.out.xs[i] = SubEntries(arg.m.snippets)[i].m.snippet
        ELSE ret.out = None

(* The snippets of a collection whose first sub-entry holds a snippet and *)
(* whose second has no snippet key.                                        *)
C8_Witness ==
    /\ AppliedAs("snippets")
    /\ "snippets" \in DOMAIN arg.m
    /\ arg.m.snippets = List(<<Map([snippet |-> Str(<<"a">>)]), EmptyMap>>)
    /\ ret.out = None

(* The attributes of a sub-entry, when present, have the types the span   *)
(* classes accept: a string or null content, a number or null pageNumber.  *)
HasTypedAttributes(sub) ==
    /\ Has(sub, "content") => IsOptStr(sub.m.content)
    /\ Has(sub, "pageNumber") => IsOptInt(sub.m.pageNumber)

SpanClass(field) ==
    IF field = "extractive_answers" THEN "ExtractiveAnswer"
    ELSE "ExtractiveSegment"

OneSpanPerSubEntry(field, coll, out) ==
    /\ out.t = "list"
    /\ Len(out.xs) = Len(SubEntries(coll))
    /\ \A i \in 1..Len(out.xs) :
          out.xs[i] = SpanOf(SpanClass(field), SubEntries(coll)[i])

AppliedExtraction == ret.t = "applied" /\ ret.f \in {"extractive_answers",
                                                     "extractive_segments"}

=============================================================================
